---- MODULE Spec2Model ----
(***************************************************************************)
(* A model of inputKit.  First its MouseListener (src/mouse/listener.py):  *)
(* the start()/stop() handshake between calling threads and the background *)
(* thread that owns the Quartz event tap, and the dispatch callback that  *)
(* classifies each intercepted event, calls the registered handler and    *)
(* decides whether the event propagates.                                   *)
(*                                                                         *)
(* Quartz and threading are the environment.  What the model assumes of   *)
(* them: CFRunLoopGetCurrent() is the run loop of the thread that calls   *)
(* it; CFRunLoopRun() on a loop with an attached tap returns only when    *)
(* that loop is stopped or an exception leaves a callback; Thread.join()  *)
(* blocks until the thread has finished, and raises on a thread that was  *)
(* never started; Thread.start() raises on a thread started before.       *)
(* Handlers are modelled by their outcome (a returned value or a raise).  *)
(*                                                                         *)
(* Then the injectors: the key map and KeyboardController                  *)
(* (src/keyboard/keymap.py, src/keyboard/controller.py) and                *)
(* MouseController (src/mouse/controller.py), each a sequence of events    *)
(* posted to the backend.  Characters are strings; the backtick and the    *)
(* characters outside ASCII are written by their code points (U+0060).     *)
(* Coordinates are exact fractions.                                        *)
(***************************************************************************)
EXTENDS Integers, FiniteSets, Sequences, TLC

\* ------------------------------------------------------------- bounds
\* Thread objects start() may create in one behaviour.
MaxThreads == 2
\* Largest button number the backend reports (0 left, 1 right, 2.. other).
MaxButton == 3
\* startsInRun counts the start() calls of a run up to this value.
MaxStarts == 2

Tids == 1..MaxThreads
NoThread == 0

\* Threads that call start() and stop().  Spec drives the listener from one
\* thread; SpecConc from two.
Callers == {"c1", "c2"}
SeqCallers == {"c1"}

\* ------------------------------------------------------ python values
\* What a handler hands back: None, True, False, the int 0, the empty str.
PyValues == {"None", "True", "False", "int0", "empty_str"}
\* A handler invocation either returns a value or raises.
HandlerOutcomes == PyValues \cup {"raise"}
\* The on_error handler either returns or raises.
ErrorOutcomes == {"return", "raise"}

\* `x is False`: identity with the False singleton, not falsiness.
IsFalseFalsy(v) == v \in {"None", "False", "int0", "empty_str"}
IsFalse(v) == v = "False"

\* ------------------------------------------------------------- events
\* The event classes of the tap's mask.
EventMask ==
    {"MouseMoved", "LeftMouseDown", "LeftMouseUp", "RightMouseDown",
     "RightMouseUp", "OtherMouseDown", "OtherMouseUp", "ScrollWheel"}

ButtonEvents ==
    {"LeftMouseDown", "LeftMouseUp", "RightMouseDown", "RightMouseUp",
     "OtherMouseDown", "OtherMouseUp"}

\* The button number the backend stores in a button event of each class.
ButtonNumbers(evType) ==
    CASE evType \in {"LeftMouseDown", "LeftMouseUp"} -> {0}
      [] evType \in {"RightMouseDown", "RightMouseUp"} -> {1}
      [] evType \in {"OtherMouseDown", "OtherMouseUp"} -> 2..MaxButton
      [] OTHER -> {0}

\* {0: "left", 1: "right", 2: "middle"}.get(n, f"button{n}")
ButtonLabel(n) ==
    CASE n = 0 -> "left"
      [] n = 1 -> "right"
      [] n = 2 -> "middle"
      [] OTHER -> "button" \o ToString(n)

\* pressed = event_type in (kCGEventLeftMouseDown, kCGEventRightMouseDown)
Pressed(evType) == evType \in {"LeftMouseDown", "RightMouseDown"}

\* ---------------------------------------------------------- _safe_call
\* The handler's outcome seen through _safe_call: the value it returned; or,
\* when it raised, True after the report (on_error when registered, else the
\* logger).  on_error is called outside any try: when it raises, the
\* exception leaves _safe_call.
SafeCall(outcome, onError, errOutcome) ==
    IF outcome # "raise"
    THEN [escaped |-> FALSE, value |-> outcome, report |-> "none"]
    ELSE IF onError
         THEN IF errOutcome = "raise"
              THEN [escaped |-> TRUE, value |-> "None", report |-> "on_error"]
              ELSE [escaped |-> FALSE, value |-> "True", report |-> "on_error"]
         ELSE [escaped |-> FALSE, value |-> "True", report |-> "log"]

\* ----------------------------------------------------------- _callback
\* What the callback gives the backend after a handler call: nothing (None)
\* when the result is False, the event otherwise; an exception that left
\* _safe_call leaves the callback too.
Decide(r) ==
    IF r.escaped THEN "escaped"
    ELSE IF IsFalse(r.value) THEN "None" ELSE "event"

NoCall == [handler |-> "none", button |-> "", pressed |-> FALSE]

\* _callback for one event: h is the handler set (which of on_move, on_click,
\* on_scroll, on_error are registered), evType and btn the event, outcome what
\* the invoked handler does and errOutcome what on_error does.  unhandled is
\* what an event that reaches the end of the function gives the backend.
CallbackBody(h, evType, btn, outcome, errOutcome, unhandled) ==
    IF evType = "MouseMoved" /\ h.on_move
    THEN [handler |-> "on_move", button |-> "", pressed |-> FALSE,
          ret |-> Decide(SafeCall(outcome, h.on_error, errOutcome))]
    ELSE IF evType \in ButtonEvents
    THEN IF h.on_click
         THEN [handler |-> "on_click", button |-> ButtonLabel(btn),
               pressed |-> Pressed(evType),
               ret |-> Decide(SafeCall(outcome, h.on_error, errOutcome))]
         ELSE NoCall @@ [ret |-> unhandled]
    ELSE IF evType = "ScrollWheel" /\ h.on_scroll
    THEN [handler |-> "on_scroll", button |-> "", pressed |-> FALSE,
          ret |-> Decide(SafeCall(outcome, h.on_error, errOutcome))]
    ELSE NoCall @@ [ret |-> unhandled]

CallbackBlocksUnhandled(h, evType, btn, outcome, errOutcome) ==
    CallbackBody(h, evType, btn, outcome, errOutcome, "None")
\* A callback that lets scroll events through without calling on_scroll.
CallbackDropsScroll(h, evType, btn, outcome, errOutcome) ==
    IF evType = "ScrollWheel" THEN NoCall @@ [ret |-> "event"]
    ELSE CallbackBody(h, evType, btn, outcome, errOutcome, "event")
Callback(h, evType, btn, outcome, errOutcome) ==
    CallbackBody(h, evType, btn, outcome, errOutcome, "event")

\* ---------------------------------------------------------- run loops
\* Each thread has its own run loop; CFRunLoopGetCurrent() gives the loop of
\* the thread executing the call.
RunLoopOfCaller(c) == "loop_" \o c
RunLoopOfThread(t) == "loop_t" \o ToString(t)

\* ------------------------------------------------------- the key map
\* KEYCODE_CHAR_MAP, as the pairs (key code, character) in the order the
\* dict holds them.
KEYCODE_CHAR_MAP ==
    << <<0, "a">>, <<1, "s">>, <<2, "d">>, <<3, "f">>, <<4, "h">>,
       <<5, "g">>, <<6, "z">>, <<7, "x">>, <<8, "c">>, <<9, "v">>,
       <<11, "b">>, <<12, "q">>, <<13, "w">>, <<14, "e">>, <<15, "r">>,
       <<16, "y">>, <<17, "t">>, <<18, "1">>, <<19, "2">>, <<20, "3">>,
       <<21, "4">>, <<22, "6">>, <<23, "5">>, <<24, "=">>, <<25, "9">>,
       <<26, "7">>, <<27, "-">>, <<28, "8">>, <<29, "0">>, <<30, "]">>,
       <<31, "o">>, <<32, "u">>, <<33, "[">>, <<34, "i">>, <<35, "p">>,
       <<37, "l">>, <<38, "j">>, <<39, "'">>, <<40, "k">>, <<41, ";">>,
       <<42, "\\">>, <<43, ",">>, <<44, "/">>, <<45, "n">>, <<46, "m">>,
       <<47, ".">>, <<49, " ">>, <<50, "U+0060">>, <<82, "0">>, <<83, "1">>,
       <<84, "2">>, <<85, "3">>, <<86, "4">>, <<87, "5">>, <<88, "6">>,
       <<89, "7">>, <<91, "8">>, <<92, "9">> >>

\* SHIFTED_CHAR_MAP, as the pairs (character, base character).
SHIFTED_CHAR_MAP ==
    { <<"~", "U+0060">>, <<"!", "1">>, <<"@", "2">>, <<"#", "3">>, <<"$", "4">>,
      <<"%", "5">>, <<"^", "6">>, <<"&", "7">>, <<"*", "8">>, <<"(", "9">>,
      <<")", "0">>, <<"_", "-">>, <<"+", "=">>, <<"{", "[">>, <<"}", "]">>,
      <<"|", "\\">>, <<":", ";">>, <<"\"", "'">>, <<"<", ",">>,
      <<">", ".">>, <<"?", "/">> }

\* The ASCII letters, and three characters without a key: U+00E9 (a
\* lowercase letter), U+00C9 (its uppercase) and U+03D2 (an uppercase letter
\* that str.lower() leaves as it is).
LowerLetters ==
    << "a", "b", "c", "d", "e", "f", "g", "h", "i", "j", "k", "l", "m",
       "n", "o", "p", "q", "r", "s", "t", "u", "v", "w", "x", "y", "z" >>
UpperLetters ==
    << "A", "B", "C", "D", "E", "F", "G", "H", "I", "J", "K", "L", "M",
       "N", "O", "P", "Q", "R", "S", "T", "U", "V", "W", "X", "Y", "Z" >>
Range(f) == {f[i] : i \in DOMAIN f}

\* str.isalpha(), str.isupper() and str.lower() on one character.
isalpha(ch) ==
    ch \in Range(LowerLetters) \cup Range(UpperLetters)
           \cup {"U+00E9", "U+00C9", "U+03D2"}
isupper(ch) == ch \in Range(UpperLetters) \cup {"U+00C9", "U+03D2"}
lower_unchanged(ch) == ch
lower(ch) ==
    IF ch \in Range(UpperLetters)
    THEN LowerLetters[CHOOSE i \in DOMAIN UpperLetters : UpperLetters[i] = ch]
    ELSE IF ch = "U+00C9" THEN "U+00E9" ELSE ch

\* The characters calls are made with: everything the tables hold, the
\* uppercase letters, the three above, and the newline.
Chars ==
    {p[2] : p \in Range(KEYCODE_CHAR_MAP)} \cup {p[1] : p \in SHIFTED_CHAR_MAP}
        \cup Range(UpperLetters) \cup {"U+00E9", "U+00C9", "U+03D2", "\n"}

\* What a call of char_to_keycode gives: a pair (key code, shift), None, or
\* a RecursionError once the interpreter's stack is used up.
Found(code, shift) == [kind |-> "found", code |-> code, shift |-> shift]
NotFound == [kind |-> "None", code |-> -1, shift |-> FALSE]
RecursionError == [kind |-> "RecursionError", code |-> -1, shift |-> FALSE]
\* The recursion depth that stands for the interpreter's limit: a call chain
\* of the tables and the uppercase rule that ends is at most three deep.
MaxDepth == 3

\* SHIFTED_CHAR_MAP[char]
ShiftedBase(char) ==
    (CHOOSE p \in SHIFTED_CHAR_MAP : p[1] = char)[2]

\* `return result[0], True`
Unshifted(result) == result
WithShift(result) == Found(result.code, TRUE)

\* The loop over KEYCODE_CHAR_MAP.items(): the first pair whose character is
\* char gives (key, False); none gives None.
ScanByPosition(char) ==
    LET hits == {i \in DOMAIN KEYCODE_CHAR_MAP : KEYCODE_CHAR_MAP[i][2] = char}
    IN  IF hits = {} THEN NotFound
        ELSE Found(CHOOSE i \in hits : \A j \in hits : i <= j, FALSE)
\* A scan that gives the last pair holding the character.
ScanLast(char) ==
    LET hits == {i \in DOMAIN KEYCODE_CHAR_MAP : KEYCODE_CHAR_MAP[i][2] = char}
        final == CHOOSE i \in hits : \A j \in hits : i >= j
    IN  IF hits = {} THEN NotFound
        ELSE Found(KEYCODE_CHAR_MAP[final][1], FALSE)
Scan(char) ==
    LET hits == {i \in DOMAIN KEYCODE_CHAR_MAP : KEYCODE_CHAR_MAP[i][2] = char}
        first == CHOOSE i \in hits : \A j \in hits : i <= j
    IN  IF hits = {} THEN NotFound
        ELSE Found(KEYCODE_CHAR_MAP[first][1], FALSE)

\* char_to_keycode at a recursion depth.  `if result:` is true of every
\* tuple, so of every pair a recursive call returns; an exception raised in
\* a recursive call leaves the caller too.
RECURSIVE Resolve(_, _)
Resolve(char, depth) ==
    IF depth > MaxDepth THEN RecursionError
    ELSE LET viaShift == Resolve(ShiftedBase(char), depth + 1)
             viaUpper == Resolve(lower(char), depth + 1)
             tryShift == char \in {p[1] : p \in SHIFTED_CHAR_MAP}
             tryUpper == isalpha(char) /\ isupper(char)
         IN  IF tryShift /\ viaShift.kind = "RecursionError"
                 THEN RecursionError
             ELSE IF tryShift /\ viaShift.kind = "found"
                 THEN WithShift(viaShift)
             ELSE IF tryUpper /\ viaUpper.kind = "RecursionError"
                 THEN RecursionError
             ELSE IF tryUpper /\ viaUpper.kind = "found"
                 THEN WithShift(viaUpper)
             ELSE Scan(char)

char_to_keycode(char) == Resolve(char, 0)

\* The deepest level at which char_to_keycode is entered when it is called
\* at `depth`: the shifted rule calls it one level down; the uppercase rule
\* does so too, unless the shifted rule has returned or raised.
RECURSIVE Deepest(_, _)
Deepest(char, depth) ==
    IF depth > MaxDepth THEN depth
    ELSE LET tryShift == char \in {p[1] : p \in SHIFTED_CHAR_MAP}
             tryUpper == isalpha(char) /\ isupper(char)
             shiftEnds ==
                 tryShift /\ Resolve(ShiftedBase(char), depth + 1).kind # "None"
             a == IF tryShift THEN Deepest(ShiftedBase(char), depth + 1)
                  ELSE depth
             b == IF ~shiftEnds /\ tryUpper THEN Deepest(lower(char), depth + 1)
                  ELSE depth
         IN  IF a >= b THEN a ELSE b

\* ---------------------------------------------- the keyboard controller
\* The Key enum: member name |-> key code.
Key ==
    [SHIFT_L |-> 56, SHIFT_R |-> 60, SHIFT |-> 60, CAPS_LOCK |-> 57,
     CTRL_L |-> 59, CTRL_R |-> 62, CTRL |-> 62, OPTION_L |-> 58,
     OPTION_R |-> 61, OPTION |-> 61, CMD_L |-> 55, CMD_R |-> 54, CMD |-> 54,
     FN |-> 63, TAB |-> 48, ESC |-> 53, DELETE |-> 51,
     NUMPAD_DELETE |-> 117, RETURN |-> 36, ENTER |-> 76, SPACE |-> 49,
     LEFT |-> 123, RIGHT |-> 124, UP |-> 126, DOWN |-> 125, HOME |-> 115,
     END |-> 119, PAGE_UP |-> 116, PAGE_DOWN |-> 121, F1 |-> 122,
     F2 |-> 120, F3 |-> 99, F4 |-> 118, F5 |-> 96, F6 |-> 97, F7 |-> 98,
     F8 |-> 100, F9 |-> 101, F10 |-> 109, F11 |-> 103, F12 |-> 111]

\* An argument of press, release or tap: a one-character str, a member of
\* Key, or something else (an int).
StrArg(ch) == [type |-> "str", v |-> ch]
KeyArgs ==
    {StrArg(ch) : ch \in Chars}
        \cup {[type |-> "Key", v |-> k] : k \in DOMAIN Key}
        \cup {[type |-> "int", v |-> "0"]}
NoKey == [type |-> "none", v |-> ""]

\* A keyboard event posted to kCGHIDEventTap: its key code, key-down or
\* key-up, and whether its flags are kCGEventFlagMaskShift.
KeyEvent(code, down, shift) == [code |-> code, down |-> down, shift |-> shift]

\* What a call posts and how it ends ("none": it returns).
Posts(events) == [events |-> events, exc |-> "none"]
Raises(exc) == [events |-> <<>>, exc |-> exc]

\* press(key) with a str: the result of char_to_keycode is unpacked into
\* two names, which raises TypeError when it is None.
KbPressStr(ch) ==
    LET r == char_to_keycode(ch)
    IN  IF r.kind = "RecursionError" THEN Raises("RecursionError")
        ELSE IF r.kind = "None" THEN Raises("TypeError")
        ELSE Posts(<<KeyEvent(r.code, TRUE, r.shift)>>)
\* A press that holds shift with a key event of its own.
KbPressShiftKey(key) ==
    IF key.type = "str"
    THEN LET r == char_to_keycode(key.v)
         IN  IF r.kind # "found" THEN Raises("TypeError")
             ELSE IF r.shift
                  THEN Posts(<<KeyEvent(Key.SHIFT, TRUE, FALSE),
                               KeyEvent(r.code, TRUE, FALSE)>>)
                  ELSE Posts(<<KeyEvent(r.code, TRUE, FALSE)>>)
    ELSE Posts(<<>>)
KbPress(key) ==
    IF key.type = "str" THEN KbPressStr(key.v)
    ELSE IF key.type = "Key" THEN Posts(<<KeyEvent(Key[key.v], TRUE, FALSE)>>)
    ELSE Posts(<<>>)

\* release(key): the key-up event carries no flags.
KbRelease(key) ==
    IF key.type = "str"
    THEN LET r == char_to_keycode(key.v)
         IN  IF r.kind = "RecursionError" THEN Raises("RecursionError")
             ELSE IF r.kind = "None" THEN Raises("TypeError")
             ELSE Posts(<<KeyEvent(r.code, FALSE, FALSE)>>)
    ELSE IF key.type = "Key" THEN Posts(<<KeyEvent(Key[key.v], FALSE, FALSE)>>)
    ELSE Posts(<<>>)

\* tap(key): press, then release unless press raised.
KbTap(key) ==
    LET p == KbPress(key)
        r == KbRelease(key)
    IN  IF p.exc # "none" THEN p
        ELSE [events |-> p.events \o r.events, exc |-> r.exc]

\* ------------------------------------------------- the mouse controller
\* A coordinate is an exact fraction <<numerator, denominator>> in lowest
\* terms with a positive denominator; Python computes it in floating point.
Abs(n) == IF n < 0 THEN -n ELSE n
RECURSIVE Gcd(_, _)
Gcd(a, b) == IF b = 0 THEN a ELSE Gcd(b, a % b)
Frac(n, d) ==
    LET g == Gcd(Abs(n), d)
    IN  IF n = 0 THEN <<0, 1>> ELSE <<n \div g, d \div g>>
RatAdd(a, b) == Frac(a[1] * b[2] + b[1] * a[2], a[2] * b[2])

\* The Button enum, and a value that is no member of it.
Buttons == {"left", "right", "middle"}
ButtonArgs == Buttons \cup {"none"}
DownType(button) ==
    IF button = "left" THEN "LeftMouseDown"
    ELSE IF button = "right" THEN "RightMouseDown" ELSE "OtherMouseDown"
UpType(button) ==
    IF button = "left" THEN "LeftMouseUp"
    ELSE IF button = "right" THEN "RightMouseUp" ELSE "OtherMouseUp"
ButtonType(button) ==
    IF button = "left" THEN 0 ELSE IF button = "right" THEN 1 ELSE 2

\* A mouse event posted to kCGHIDEventTap.  A click state that was not set
\* is 0.
MouseEvent(type, pos, button, clickState) ==
    [type |-> type, pos |-> pos, button |-> button,
     clickState |-> clickState]

\* move(): the position of step i of `steps`, from the position read when
\* the call began.
StepPositionFixedStride(pos, dx, dy, i, steps) ==
    <<RatAdd(pos[1], Frac(dx, steps)), RatAdd(pos[2], Frac(dy, steps))>>
StepPosition(pos, dx, dy, i, steps) ==
    <<RatAdd(pos[1], Frac(dx * i, steps)),
      RatAdd(pos[2], Frac(dy * i, steps))>>

\* press(), release(), drag(): the button is one of the three.
SupportedAny(button) == TRUE
Supported(button) == button \in Buttons

\* press(button) with the position it read: the down event of the button,
\* or nothing for another value.
MousePress(pos, button) ==
    IF Supported(button)
    THEN <<MouseEvent(DownType(button), pos, ButtonType(button), 0)>>
    ELSE <<>>

\* release(button) with the position it read.
MouseReleaseNothing(pos, button) == <<>>
MouseRelease(pos, button) ==
    IF Supported(button)
    THEN <<MouseEvent(UpType(button), pos, ButtonType(button), 0)>>
    ELSE <<>>

\* drag(): the type of its dragged events.
DragType(button) ==
    IF button = "left" THEN "LeftMouseDragged"
    ELSE IF button = "right" THEN "RightMouseDragged"
    ELSE "OtherMouseDragged"

\* scroll(): the delta of turn i of `steps`, `d / steps`, and the event
\* CGEventCreateScrollWheelEvent(None, kCGScrollEventUnitPixel, 2,
\* intermediate_dy, intermediate_dx).
ScrollDeltaCumulative(d, i, steps) == Frac(d * i, steps)
ScrollDelta(d, i, steps) == Frac(d, steps)
ScrollEvent(wheel1, wheel2) ==
    [type |-> "ScrollWheel", wheel1 |-> wheel1, wheel2 |-> wheel2]

\* click(): the down and the up event of iteration i.
ClickPairUntagged(pos, button, i) ==
    <<MouseEvent(DownType(button), pos, ButtonType(button), 1),
      MouseEvent(UpType(button), pos, ButtonType(button), 1)>>
ClickPair(pos, button, i) ==
    <<MouseEvent(DownType(button), pos, ButtonType(button), i),
      MouseEvent(UpType(button), pos, ButtonType(button), i)>>

\* --------------------------------------------------------------- state
VARIABLES
    on_move, on_click, on_scroll, on_error, \* handlers registered (truthy)
    tap,          \* self.tap: the tap of thread t, or NoThread for None
    _thread,      \* self._thread: a thread id, or NoThread for None
    _running,     \* self._running
    thr,          \* thr[t]: "unborn", "new", "setup", "looping", "dead"
    exitCause,    \* exitCause[t]: why run() ended, "none" while it has not
    tapEnabled,   \* tapEnabled[t]: t's tap was created and enabled
    loopStops,    \* the run loops CFRunLoopStop has been called on
    pc,           \* pc[c]: where caller c stands in start() or stop()
    joinTarget,   \* joinTarget[c]: the thread c's join() waits for
    outcome,      \* outcome[c]: how c's last call ended
    last,         \* the last dispatch of _callback
    runThreads,   \* threads created since _running was last cleared
    startsInRun,  \* start() calls returned since _running was last cleared
    stoppedRuns,  \* threads whose run a returned stop() has joined
    evLog,        \* the event types the backend delivered, in delivery order
    callLog,      \* the handler invocations, in invocation order
    ctxTap,       \* ctxTap[c]: the tap c's `with` created is enabled
    exitPath,     \* exitPath[c]: how c's `with` statement was left
    kbOp,         \* the keyboard call made: its name
    kbKey,        \* ... its key argument
    kbText,       \* ... its text argument, a sequence of characters
    kbIdx,        \* type(): the characters of the text done with
    kbPosted,     \* the keyboard events posted, in order
    kbResult,     \* what char_to_keycode returned
    kbOutcome,    \* "none" while the call runs, then how it ended
    mCall,        \* the mouse call made: its name and arguments
    cursor,       \* where the cursor is
    mPos,         \* the call's current_position
    mI,           \* the iterations of the call's loop done with
    mPosted,      \* the mouse events posted, in order
    mPc,          \* "idle", "called", "loop", "returned", or an exception
    mReads        \* the reads of self.position the call has made

\* The listener and the threads that drive it.
lsnVars == <<on_move, on_click, on_scroll, on_error, tap, _thread, _running,
             thr, exitCause, tapEnabled, loopStops, pc, joinTarget, outcome,
             last, runThreads, startsInRun, stoppedRuns>>
\* The record of deliveries and invocations.
ordVars == <<evLog, callLog>>
\* The listener used in a `with` statement.
ctxVars == <<ctxTap, exitPath>>
\* The keyboard controller and the mouse controller.
kbVars == <<kbOp, kbKey, kbText, kbIdx, kbPosted, kbResult, kbOutcome>>
mVars == <<mCall, cursor, mPos, mI, mPosted, mPc, mReads>>
injVars == <<kbVars, mVars>>
\* What start(), stop() and the background thread leave alone.
auxVars == <<ordVars, ctxVars, injVars>>

vars == <<lsnVars, auxVars>>

listenerVars == <<tap, _thread, _running>>
threadVars == <<thr, exitCause, tapEnabled>>
handlerVars == <<on_move, on_click, on_scroll, on_error>>
histVars == <<runThreads, startsInRun, stoppedRuns>>

HandlerSet ==
    [on_move |-> on_move, on_click |-> on_click, on_scroll |-> on_scroll,
     on_error |-> on_error]

NoDispatch ==
    [evType |-> "none", btn |-> 0, outcome |-> "None", errOutcome |-> "return",
     handler |-> "none", button |-> "", pressed |-> FALSE, ret |-> "event"]

\* __init__: any subset of the four handlers; no tap, no thread, not running.
ListenerInit ==
    /\ on_move \in BOOLEAN
    /\ on_click \in BOOLEAN
    /\ on_scroll \in BOOLEAN
    /\ on_error \in BOOLEAN
    /\ tap = NoThread
    /\ _thread = NoThread
    /\ _running = FALSE
    /\ thr = [t \in Tids |-> "unborn"]
    /\ exitCause = [t \in Tids |-> "none"]
    /\ tapEnabled = [t \in Tids |-> FALSE]
    /\ loopStops = {}
    /\ pc = [c \in Callers |-> "idle"]
    /\ joinTarget = [c \in Callers |-> NoThread]
    /\ outcome = [c \in Callers |-> "none"]
    /\ last = NoDispatch
    /\ runThreads = {}
    /\ startsInRun = 0
    /\ stoppedRuns = {}

\* Nothing delivered yet, and no `with` statement entered.
NoDeliveries == evLog = <<>> /\ callLog = <<>>
NoContext ==
    /\ ctxTap = [c \in Callers |-> FALSE]
    /\ exitPath = [c \in Callers |-> "none"]

\* No keyboard call and no mouse call made.
KbIdle ==
    /\ kbOp = "none" /\ kbKey = NoKey /\ kbText = <<>> /\ kbIdx = 0
    /\ kbPosted = <<>> /\ kbResult = NotFound /\ kbOutcome = "none"
Origin == <<Frac(0, 1), Frac(0, 1)>>
NoMouseCall ==
    [op |-> "none", dx |-> 0, dy |-> 0, steps |-> 0, button |-> "none",
     count |-> 0, from |-> Origin]
MouseIdle ==
    /\ mCall = NoMouseCall /\ cursor = Origin /\ mPos = Origin /\ mI = 0
    /\ mPosted = <<>> /\ mPc = "idle" /\ mReads = 0

Init == ListenerInit /\ NoDeliveries /\ NoContext /\ KbIdle /\ MouseIdle

\* ------------------------------------------------- the calling threads
Unborn == {t \in Tids : thr[t] = "unborn"}
NextTid == CHOOSE t \in Unborn : \A u \in Unborn : t <= u
InStart == {c \in Callers : pc[c] \in {"start_check", "start_set", "start_create"}}
Bump(n) == IF n < MaxStarts THEN n + 1 ELSE n

\* A caller enters start().  No call is begun that could not be given a
\* thread id within MaxThreads.
StartCall(c) ==
    /\ pc[c] = "idle"
    /\ Cardinality(Unborn) > Cardinality(InStart)
    /\ pc' = [pc EXCEPT ![c] = "start_check"]
    /\ UNCHANGED <<auxVars, handlerVars, listenerVars, threadVars, loopStops,
                   joinTarget, outcome, last, histVars>>

\* start() without its test of the flag: a thread is created whether or not
\* the listener is already running.
StartCheckUnguarded(c) ==
    /\ pc[c] = "start_check"
    /\ pc' = [pc EXCEPT ![c] = "start_set"]
    /\ UNCHANGED <<auxVars, handlerVars, listenerVars, threadVars, loopStops,
                   joinTarget, outcome, last, histVars>>

\* start(): `if self._running: logger.warning(...); return`
StartCheck(c) ==
    /\ pc[c] = "start_check"
    /\ IF _running
       THEN /\ pc' = [pc EXCEPT ![c] = "idle"]
            /\ outcome' = [outcome EXCEPT ![c] = "start_noop"]
            /\ startsInRun' = Bump(startsInRun)
       ELSE /\ pc' = [pc EXCEPT ![c] = "start_set"]
            /\ UNCHANGED <<outcome, startsInRun>>
    /\ UNCHANGED <<auxVars, handlerVars, listenerVars, threadVars, loopStops,
                   joinTarget, last, runThreads, stoppedRuns>>

\* start(): `self._running = True`
StartSet(c) ==
    /\ pc[c] = "start_set"
    /\ _running' = TRUE
    /\ pc' = [pc EXCEPT ![c] = "start_create"]
    /\ UNCHANGED <<auxVars, handlerVars, tap, _thread, threadVars, loopStops,
                   joinTarget, outcome, last, histVars>>

\* start(): `self._thread = threading.Thread(target=run, daemon=True)`
StartCreate(c) ==
    /\ pc[c] = "start_create"
    /\ Unborn # {}
    /\ thr' = [thr EXCEPT ![NextTid] = "new"]
    /\ _thread' = NextTid
    /\ runThreads' = runThreads \cup {NextTid}
    /\ pc' = [pc EXCEPT ![c] = "start_thread"]
    /\ UNCHANGED <<auxVars, handlerVars, tap, _running, exitCause, tapEnabled,
                   loopStops, joinTarget, outcome, last, startsInRun,
                   stoppedRuns>>

\* start(): `self._thread.start()`.  The attribute is read again: it is None
\* after a stop() cleared it (AttributeError), and a thread another start()
\* already started cannot be started twice (RuntimeError).
StartThread(c) ==
    /\ pc[c] = "start_thread"
    /\ pc' = [pc EXCEPT ![c] = "idle"]
    /\ IF _thread = NoThread
       THEN /\ outcome' = [outcome EXCEPT ![c] = "AttributeError"]
            /\ UNCHANGED <<thr, startsInRun>>
       ELSE IF thr[_thread] = "new"
       THEN /\ thr' = [thr EXCEPT ![_thread] = "setup"]
            /\ outcome' = [outcome EXCEPT ![c] = "started"]
            /\ startsInRun' = Bump(startsInRun)
       ELSE /\ outcome' = [outcome EXCEPT ![c] = "RuntimeError"]
            /\ UNCHANGED <<thr, startsInRun>>
    /\ UNCHANGED <<auxVars, handlerVars, listenerVars, exitCause, tapEnabled,
                   loopStops, joinTarget, last, runThreads, stoppedRuns>>

\* A caller enters stop().
StopCall(c) ==
    /\ pc[c] = "idle"
    /\ pc' = [pc EXCEPT ![c] = "stop_check"]
    /\ UNCHANGED <<auxVars, handlerVars, listenerVars, threadVars, loopStops,
                   joinTarget, outcome, last, histVars>>

\* stop() without its first test: teardown is entered whatever the flag.
StopCheckUnguarded(c) ==
    /\ pc[c] = "stop_check"
    /\ pc' = [pc EXCEPT ![c] = "stop_runloopstop"]
    /\ UNCHANGED <<auxVars, handlerVars, listenerVars, threadVars, loopStops,
                   joinTarget, outcome, last, histVars>>

\* stop(): `if not self._running: logger.warning(...); return`
StopCheck(c) ==
    /\ pc[c] = "stop_check"
    /\ IF ~_running
       THEN /\ pc' = [pc EXCEPT ![c] = "idle"]
            /\ outcome' = [outcome EXCEPT ![c] = "stop_noop"]
       ELSE /\ pc' = [pc EXCEPT ![c] = "stop_recheck"]
            /\ UNCHANGED outcome
    /\ UNCHANGED <<auxVars, handlerVars, listenerVars, threadVars, loopStops,
                   joinTarget, last, histVars>>

\* stop(): `elif self._running:` reads the flag a second time; when it was
\* cleared in between, stop() returns having done nothing.
StopRecheck(c) ==
    /\ pc[c] = "stop_recheck"
    /\ IF _running
       THEN /\ pc' = [pc EXCEPT ![c] = "stop_runloopstop"]
            /\ UNCHANGED outcome
       ELSE /\ pc' = [pc EXCEPT ![c] = "idle"]
            /\ outcome' = [outcome EXCEPT ![c] = "stop_skipped"]
    /\ UNCHANGED <<auxVars, handlerVars, listenerVars, threadVars, loopStops,
                   joinTarget, last, histVars>>

\* stop(): `Quartz.CFRunLoopStop(Quartz.CFRunLoopGetCurrent())`, executed by
\* the thread that called stop().
StopRunLoopStop(c) ==
    /\ pc[c] = "stop_runloopstop"
    /\ loopStops' = loopStops \cup {RunLoopOfCaller(c)}
    /\ pc' = [pc EXCEPT ![c] = "stop_clear_flag"]
    /\ UNCHANGED <<auxVars, handlerVars, listenerVars, threadVars, joinTarget,
                   outcome, last, histVars>>

\* stop(): `self._running = False`
StopClearFlag(c) ==
    /\ pc[c] = "stop_clear_flag"
    /\ _running' = FALSE
    /\ runThreads' = {}
    /\ startsInRun' = 0
    /\ pc' = [pc EXCEPT ![c] = "stop_join"]
    /\ UNCHANGED <<auxVars, handlerVars, tap, _thread, threadVars, loopStops,
                   joinTarget, outcome, last, stoppedRuns>>

\* stop(): `self._thread.join()` is entered.  None has no join
\* (AttributeError); a thread that was never started cannot be joined
\* (RuntimeError); otherwise the caller waits for that thread.
StopJoin(c) ==
    /\ pc[c] = "stop_join"
    /\ IF _thread = NoThread
       THEN /\ pc' = [pc EXCEPT ![c] = "idle"]
            /\ outcome' = [outcome EXCEPT ![c] = "AttributeError"]
            /\ UNCHANGED joinTarget
       ELSE IF thr[_thread] = "new"
       THEN /\ pc' = [pc EXCEPT ![c] = "idle"]
            /\ outcome' = [outcome EXCEPT ![c] = "RuntimeError"]
            /\ UNCHANGED joinTarget
       ELSE /\ pc' = [pc EXCEPT ![c] = "stop_join_wait"]
            /\ joinTarget' = [joinTarget EXCEPT ![c] = _thread]
            /\ UNCHANGED outcome
    /\ UNCHANGED <<auxVars, handlerVars, listenerVars, threadVars, loopStops, last,
                   histVars>>

\* stop(): join() returns once the joined thread has finished.
StopJoinWait(c) ==
    /\ pc[c] = "stop_join_wait"
    /\ thr[joinTarget[c]] = "dead"
    /\ pc' = [pc EXCEPT ![c] = "stop_clear_thread"]
    /\ UNCHANGED <<auxVars, handlerVars, listenerVars, threadVars, loopStops,
                   joinTarget, outcome, last, histVars>>

\* stop(): `self._thread = None`, and stop() returns.
StopClearThread(c) ==
    /\ pc[c] = "stop_clear_thread"
    /\ _thread' = NoThread
    /\ stoppedRuns' = stoppedRuns \cup {joinTarget[c]}
    /\ joinTarget' = [joinTarget EXCEPT ![c] = NoThread]
    /\ outcome' = [outcome EXCEPT ![c] = "stopped"]
    /\ pc' = [pc EXCEPT ![c] = "idle"]
    /\ UNCHANGED <<auxVars, handlerVars, tap, _running, threadVars, loopStops, last,
                   runThreads, startsInRun>>

\* ------------------------------------------------ the background thread
\* run(): __enter__ -> _setup succeeds: the tap is created, attached to this
\* thread's run loop and enabled, and the thread enters CFRunLoopRun().
ThreadSetupOk(t) ==
    /\ thr[t] = "setup"
    /\ tap' = t
    /\ tapEnabled' = [tapEnabled EXCEPT ![t] = TRUE]
    /\ thr' = [thr EXCEPT ![t] = "looping"]
    /\ UNCHANGED <<auxVars, handlerVars, _thread, _running, exitCause, loopStops, pc,
                   joinTarget, outcome, last, histVars>>

\* run(): CGEventTapCreate returns None: self.tap is None, _setup raises
\* RuntimeError, __enter__ logs and re-raises, run() catches and logs it, and
\* the thread ends.  Nothing else of the listener is touched.
ThreadSetupFail(t) ==
    /\ thr[t] = "setup"
    /\ tap' = NoThread
    /\ thr' = [thr EXCEPT ![t] = "dead"]
    /\ exitCause' = [exitCause EXCEPT ![t] = "setup_failed"]
    /\ UNCHANGED <<auxVars, handlerVars, _thread, _running, tapEnabled, loopStops, pc,
                   joinTarget, outcome, last, histVars>>

\* The inputs of one dispatch.  A handler that is not registered for the
\* event's class is not there to do anything, and on_error acts only when a
\* handler raised and on_error is registered: those inputs are not drawn.
OutcomesFor(evType) ==
    IF \/ evType = "MouseMoved" /\ on_move
       \/ evType \in ButtonEvents /\ on_click
       \/ evType = "ScrollWheel" /\ on_scroll
    THEN HandlerOutcomes ELSE {"None"}
ErrorOutcomesFor(o) ==
    IF o = "raise" /\ on_error THEN ErrorOutcomes ELSE {"return"}

\* The backend delivers one event of the mask to the enabled tap of a thread
\* that sits in its run loop; _callback runs on that thread.  An exception
\* that leaves the callback ends CFRunLoopRun(); run() catches and logs it.
\* No statement of the listener calls CFRunLoopStop on this thread's loop
\* (loopStops holds callers' loops only), so the loop ends in no other way.
Deliver(t) ==
    /\ thr[t] = "looping"
    /\ tapEnabled[t]
    /\ \E evType \in EventMask, btn \in 0..MaxButton :
         /\ btn \in ButtonNumbers(evType)
         /\ \E o \in OutcomesFor(evType), e \in ErrorOutcomes :
              /\ e \in ErrorOutcomesFor(o)
              /\ LET r == Callback(HandlerSet, evType, btn, o, e)
                 IN /\ last' = [evType |-> evType, btn |-> btn,
                                outcome |-> o, errOutcome |-> e,
                                handler |-> r.handler, button |-> r.button,
                                pressed |-> r.pressed, ret |-> r.ret]
                    /\ IF r.ret = "escaped"
                       THEN /\ thr' = [thr EXCEPT ![t] = "dead"]
                            /\ exitCause' =
                                 [exitCause EXCEPT
                                    ![t] = "callback_exception"]
                       ELSE UNCHANGED <<thr, exitCause>>
    /\ UNCHANGED <<auxVars, handlerVars, listenerVars, tapEnabled, loopStops, pc,
                   joinTarget, outcome, histVars>>

\* ------------------------------------------------------ specifications
CallerStep(c) ==
    \/ StartCall(c) \/ StartCheck(c) \/ StartSet(c) \/ StartCreate(c)
    \/ StartThread(c)
    \/ StopCall(c) \/ StopCheck(c) \/ StopRecheck(c) \/ StopRunLoopStop(c)
    \/ StopClearFlag(c) \/ StopJoin(c) \/ StopJoinWait(c)
    \/ StopClearThread(c)

ThreadStep(t) == ThreadSetupOk(t) \/ ThreadSetupFail(t) \/ Deliver(t)

\* One thread drives the listener.
Next == (\E c \in SeqCallers : CallerStep(c)) \/ (\E t \in Tids : ThreadStep(t))
Spec == Init /\ [][Next]_vars

\* Two threads drive the same listener.  The handshake of start() and stop()
\* reads no handler, so the listener here is the one built with no handlers:
\* its tap runs and every dispatch passes the event through.
InitConc == Init /\ ~on_move /\ ~on_click /\ ~on_scroll /\ ~on_error
NextConc == (\E c \in Callers : CallerStep(c)) \/ (\E t \in Tids : ThreadStep(t))
SpecConc == InitConc /\ [][NextConc]_vars

\* ------------------------------------------ the listener in a `with`
\* The tap that _setup creates on the thread of caller c.
TapOfCaller(c) == MaxThreads + (IF c = "c1" THEN 1 ELSE 2)

\* What one run of _callback does with an event, as Deliver records it.
DispatchOf(evType, btn, o, e) ==
    LET r == Callback(HandlerSet, evType, btn, o, e)
    IN  [evType |-> evType, btn |-> btn, outcome |-> o, errOutcome |-> e,
         handler |-> r.handler, button |-> r.button, pressed |-> r.pressed,
         ret |-> r.ret]

\* `with listener:` -> __enter__ -> _setup succeeds on the calling thread:
\* the tap is created, attached to the caller's run loop and enabled.
\* __enter__ sets neither _running nor _thread.
CtxEnterOk(c) ==
    /\ pc[c] = "idle" /\ exitPath[c] = "none"
    /\ tap' = TapOfCaller(c)
    /\ ctxTap' = [ctxTap EXCEPT ![c] = TRUE]
    /\ pc' = [pc EXCEPT ![c] = "with_body"]
    /\ UNCHANGED <<injVars, ordVars, exitPath, handlerVars, _thread, _running,
                   threadVars, loopStops, joinTarget, outcome, last, histVars>>

\* __enter__ -> _setup: CGEventTapCreate returns None, _setup raises
\* RuntimeError, __enter__ logs and re-raises it: the block is not entered
\* and __exit__ is not called.
CtxEnterFail(c) ==
    /\ pc[c] = "idle" /\ exitPath[c] = "none"
    /\ tap' = NoThread
    /\ outcome' = [outcome EXCEPT ![c] = "RuntimeError"]
    /\ exitPath' = [exitPath EXCEPT ![c] = "enter_failed"]
    /\ UNCHANGED <<injVars, ordVars, ctxTap, handlerVars, _thread, _running,
                   threadVars, loopStops, pc, joinTarget, last, histVars>>

\* The block calls listener.join(): CFRunLoopRun() on the caller's thread.
CtxJoin(c) ==
    /\ pc[c] = "with_body"
    /\ pc' = [pc EXCEPT ![c] = "with_join"]
    /\ UNCHANGED <<auxVars, handlerVars, listenerVars, threadVars, loopStops,
                   joinTarget, outcome, last, histVars>>

\* The block raises.
CtxBodyRaise(c) ==
    /\ pc[c] = "with_body"
    /\ pc' = [pc EXCEPT ![c] = "with_raised"]
    /\ UNCHANGED <<auxVars, handlerVars, listenerVars, threadVars, loopStops,
                   joinTarget, outcome, last, histVars>>

\* The backend delivers an event to the caller's tap while the caller sits
\* in its run loop; an exception that leaves _callback leaves join() and the
\* block.
CtxDeliver(c) ==
    /\ pc[c] = "with_join"
    /\ ctxTap[c]
    /\ \E evType \in EventMask, btn \in 0..MaxButton :
         /\ btn \in ButtonNumbers(evType)
         /\ \E o \in OutcomesFor(evType), e \in ErrorOutcomes :
              /\ e \in ErrorOutcomesFor(o)
              /\ last' = DispatchOf(evType, btn, o, e)
              /\ pc' = [pc EXCEPT ![c] = IF last'.ret = "escaped"
                                         THEN "with_raised" ELSE @]
    /\ UNCHANGED <<auxVars, handlerVars, listenerVars, threadVars, loopStops,
                   joinTarget, outcome, histVars>>

\* The block is left, by its end or by an exception: __exit__ calls
\* self.stop() and returns None.
CtxExit(c) ==
    /\ pc[c] \in {"with_body", "with_raised"}
    /\ exitPath' = [exitPath EXCEPT
                      ![c] = IF pc[c] = "with_body" THEN "normal"
                                                    ELSE "exception"]
    /\ pc' = [pc EXCEPT ![c] = "stop_check"]
    /\ UNCHANGED <<injVars, ordVars, ctxTap, handlerVars, listenerVars, threadVars,
                   loopStops, joinTarget, outcome, last, histVars>>

\* One thread uses a freshly built listener in a `with` statement.  Nothing
\* here sets _running, so of stop() only its first test runs.
NextCtx ==
    \E c \in SeqCallers :
        \/ CtxEnterOk(c) \/ CtxEnterFail(c) \/ CtxJoin(c) \/ CtxBodyRaise(c)
        \/ CtxDeliver(c) \/ CtxExit(c) \/ StopCheck(c)
SpecCtx == Init /\ [][NextCtx]_vars

\* ---------------------------------------------- the order of dispatches
\* The longest delivery sequence that is recorded.
MaxEvents == 3

\* A listener after start(): the background thread holds its tap and sits
\* in its run loop.
RunningInit ==
    /\ on_move \in BOOLEAN
    /\ on_click \in BOOLEAN
    /\ on_scroll \in BOOLEAN
    /\ on_error \in BOOLEAN
    /\ tap = 1
    /\ _thread = 1
    /\ _running = TRUE
    /\ thr = [t \in Tids |-> IF t = 1 THEN "looping" ELSE "unborn"]
    /\ exitCause = [t \in Tids |-> "none"]
    /\ tapEnabled = [t \in Tids |-> t = 1]
    /\ loopStops = {}
    /\ pc = [c \in Callers |-> "idle"]
    /\ joinTarget = [c \in Callers |-> NoThread]
    /\ outcome = [c \in Callers |-> IF c = "c1" THEN "started" ELSE "none"]
    /\ last = NoDispatch
    /\ runThreads = {1}
    /\ startsInRun = 1
    /\ stoppedRuns = {}

\* Deliver, with the delivery and the handler invocation it makes recorded.
\* The backend calls _callback once per event, on the run-loop thread, and
\* the next event waits until the callback has returned.
DeliverLogged(t) ==
    /\ thr[t] = "looping"
    /\ tapEnabled[t]
    /\ Len(evLog) < MaxEvents
    /\ \E evType \in EventMask, btn \in 0..MaxButton :
         /\ btn \in ButtonNumbers(evType)
         /\ \E o \in OutcomesFor(evType), e \in ErrorOutcomes :
              /\ e \in ErrorOutcomesFor(o)
              /\ last' = DispatchOf(evType, btn, o, e)
              /\ evLog' = Append(evLog, evType)
              /\ callLog' =
                   IF last'.handler = "none" THEN callLog
                   ELSE Append(callLog, [event |-> Len(evLog) + 1,
                                         handler |-> last'.handler])
              /\ IF last'.ret = "escaped"
                 THEN /\ thr' = [thr EXCEPT ![t] = "dead"]
                      /\ exitCause' =
                           [exitCause EXCEPT ![t] = "callback_exception"]
                 ELSE UNCHANGED <<thr, exitCause>>
    /\ UNCHANGED <<injVars, ctxVars, handlerVars, listenerVars, tapEnabled,
                   loopStops, pc, joinTarget, outcome, histVars>>

InitDispatch ==
    RunningInit /\ NoDeliveries /\ NoContext /\ KbIdle /\ MouseIdle
NextDispatch == \E t \in Tids : DeliverLogged(t)
SpecDispatch == InitDispatch /\ [][NextDispatch]_vars

\* ------------------------------------------------- keyboard calls
\* The longest text typed.
MaxText == 4
\* The characters texts are made of: an uppercase letter, a lowercase
\* letter, a digit, a shifted character and one without a key.
TypeAlphabet == {"A", "b", "1", "!", "\n"}
Texts == UNION {[1..n -> TypeAlphabet] : n \in 0..MaxText}

\* A listener that is built and left alone.
NoHandlers == ~on_move /\ ~on_click /\ ~on_scroll /\ ~on_error
ListenerAside == ListenerInit /\ NoHandlers /\ NoDeliveries /\ NoContext

\* One call is made on a KeyboardController: char_to_keycode, press,
\* release or tap with one argument, or type with a text.
InitKeys ==
    /\ ListenerAside /\ MouseIdle
    /\ kbOp \in {"char_to_keycode", "press", "release", "tap", "type"}
    /\ kbKey \in KeyArgs \cup {NoKey}
    /\ kbText \in Texts
    /\ kbOp = "type" <=> kbKey = NoKey
    /\ kbOp # "type" => kbText = <<>>
    /\ kbOp = "char_to_keycode" => kbKey.type = "str"
    /\ kbIdx = 0 /\ kbPosted = <<>> /\ kbResult = NotFound
    /\ kbOutcome = "none"

\* How a call that posted `r` ends.
Ended(r) == IF r.exc = "none" THEN "returned" ELSE r.exc

ResolveCall ==
    /\ kbOp = "char_to_keycode" /\ kbOutcome = "none"
    /\ kbResult' = char_to_keycode(kbKey.v)
    /\ kbOutcome' = IF kbResult'.kind = "RecursionError"
                    THEN "RecursionError" ELSE "returned"
    /\ UNCHANGED <<lsnVars, ordVars, ctxVars, mVars, kbOp, kbKey, kbText,
                   kbIdx, kbPosted>>

PressCall ==
    /\ kbOp = "press" /\ kbOutcome = "none"
    /\ kbPosted' = kbPosted \o KbPress(kbKey).events
    /\ kbOutcome' = Ended(KbPress(kbKey))
    /\ UNCHANGED <<lsnVars, ordVars, ctxVars, mVars, kbOp, kbKey, kbText,
                   kbIdx, kbResult>>

ReleaseCall ==
    /\ kbOp = "release" /\ kbOutcome = "none"
    /\ kbPosted' = kbPosted \o KbRelease(kbKey).events
    /\ kbOutcome' = Ended(KbRelease(kbKey))
    /\ UNCHANGED <<lsnVars, ordVars, ctxVars, mVars, kbOp, kbKey, kbText,
                   kbIdx, kbResult>>

TapCall ==
    /\ kbOp = "tap" /\ kbOutcome = "none"
    /\ kbPosted' = kbPosted \o KbTap(kbKey).events
    /\ kbOutcome' = Ended(KbTap(kbKey))
    /\ UNCHANGED <<lsnVars, ordVars, ctxVars, mVars, kbOp, kbKey, kbText,
                   kbIdx, kbResult>>

\* type(): one turn of the loop, tap(char) and the sleep; an exception of
\* tap ends the call.
TypeChar ==
    /\ kbOp = "type" /\ kbOutcome = "none"
    /\ kbIdx < Len(kbText)
    /\ LET r == KbTap(StrArg(kbText[kbIdx + 1]))
       IN  /\ kbPosted' = kbPosted \o r.events
           /\ IF r.exc = "none"
              THEN kbIdx' = kbIdx + 1 /\ UNCHANGED kbOutcome
              ELSE kbOutcome' = r.exc /\ UNCHANGED kbIdx
    /\ UNCHANGED <<lsnVars, ordVars, ctxVars, mVars, kbOp, kbKey, kbText,
                   kbResult>>

\* type(): the loop is through.
TypeReturn ==
    /\ kbOp = "type" /\ kbOutcome = "none"
    /\ kbIdx = Len(kbText)
    /\ kbOutcome' = "returned"
    /\ UNCHANGED <<lsnVars, ordVars, ctxVars, mVars, kbOp, kbKey, kbText,
                   kbIdx, kbPosted, kbResult>>

NextKeys ==
    \/ ResolveCall \/ PressCall \/ ReleaseCall \/ TapCall
    \/ TypeChar \/ TypeReturn
SpecKeys == InitKeys /\ [][NextKeys]_vars

\* ---------------------------------------------------- mouse calls
\* The cursor starts at whole coordinates 0..MaxCoord; a delta is within
\* -MaxDelta..MaxDelta; steps is 0..MaxSteps; count is 0..MaxCount.
MaxCoord == 1
MaxDelta == 2
MaxSteps == 3
MaxCount == 3

\* One call is made on a MouseController: move, click, press, release,
\* drag or scroll.
InitMouse ==
    /\ ListenerAside /\ KbIdle
    /\ cursor \in {<<Frac(x, 1), Frac(y, 1)>> : x, y \in 0..MaxCoord}
    /\ \/ \E dx, dy \in -MaxDelta..MaxDelta, steps \in 0..MaxSteps :
            mCall = [op |-> "move", dx |-> dx, dy |-> dy, steps |-> steps,
                     button |-> "none", count |-> 0, from |-> cursor]
       \/ \E button \in ButtonArgs, count \in 0..MaxCount :
            mCall = [op |-> "click", dx |-> 0, dy |-> 0, steps |-> 0,
                     button |-> button, count |-> count, from |-> cursor]
       \/ \E op \in {"press", "release"}, button \in ButtonArgs :
            mCall = [op |-> op, dx |-> 0, dy |-> 0, steps |-> 0,
                     button |-> button, count |-> 0, from |-> cursor]
       \/ \E dx, dy \in -MaxDelta..MaxDelta, steps \in 0..MaxSteps,
             button \in ButtonArgs :
            mCall = [op |-> "drag", dx |-> dx, dy |-> dy, steps |-> steps,
                     button |-> button, count |-> 0, from |-> cursor]
       \/ \E dx, dy \in -MaxDelta..MaxDelta, steps \in 0..MaxSteps :
            mCall = [op |-> "scroll", dx |-> dx, dy |-> dy, steps |-> steps,
                     button |-> "none", count |-> 0, from |-> cursor]
    /\ mPos = Origin /\ mI = 0 /\ mPosted = <<>> /\ mPc = "called"
    /\ mReads = 0

\* move(): `current_position = self.position`.
MoveEnter ==
    /\ mCall.op = "move" /\ mPc = "called"
    /\ mPos' = cursor
    /\ mReads' = mReads + 1
    /\ mPc' = "loop"
    /\ UNCHANGED <<lsnVars, ordVars, ctxVars, kbVars, mCall, cursor, mI,
                   mPosted>>

\* move(): one turn of the loop posts a moved event; the cursor goes where
\* the event says.
MoveStep ==
    /\ mCall.op = "move" /\ mPc = "loop"
    /\ mI < mCall.steps
    /\ LET at == StepPosition(mPos, mCall.dx, mCall.dy, mI + 1, mCall.steps)
       IN  /\ mPosted' = Append(mPosted, MouseEvent("MouseMoved", at, 0, 0))
           /\ cursor' = at
    /\ mI' = mI + 1
    /\ UNCHANGED <<lsnVars, ordVars, ctxVars, kbVars, mCall, mPos, mPc,
                   mReads>>

MoveReturn ==
    /\ mCall.op = "move" /\ mPc = "loop"
    /\ mI >= mCall.steps
    /\ mPc' = "returned"
    /\ UNCHANGED <<lsnVars, ordVars, ctxVars, kbVars, mCall, cursor, mPos,
                   mI, mPosted, mReads>>

\* click(): `current_position = self.position`, then the button is mapped
\* to its event types; a button that is none of the three returns.
ClickEnter ==
    /\ mCall.op = "click" /\ mPc = "called"
    /\ mPos' = cursor
    /\ mReads' = mReads + 1
    /\ mPc' = IF mCall.button \in Buttons THEN "loop" ELSE "returned"
    /\ UNCHANGED <<lsnVars, ordVars, ctxVars, kbVars, mCall, cursor, mI,
                   mPosted>>

\* click(): one turn of the loop posts the down and the up event.
ClickStep ==
    /\ mCall.op = "click" /\ mPc = "loop"
    /\ mI < mCall.count
    /\ mPosted' = mPosted \o ClickPair(mPos, mCall.button, mI + 1)
    /\ mI' = mI + 1
    /\ UNCHANGED <<lsnVars, ordVars, ctxVars, kbVars, mCall, cursor, mPos,
                   mPc, mReads>>

ClickReturn ==
    /\ mCall.op = "click" /\ mPc = "loop"
    /\ mI >= mCall.count
    /\ mPc' = "returned"
    /\ UNCHANGED <<lsnVars, ordVars, ctxVars, kbVars, mCall, cursor, mPos,
                   mI, mPosted, mReads>>

\* press(): the position is read, and the down event posted at it.
MousePressCall ==
    /\ mCall.op = "press" /\ mPc = "called"
    /\ mPos' = cursor
    /\ mReads' = mReads + 1
    /\ mPosted' = mPosted \o MousePress(cursor, mCall.button)
    /\ mPc' = "returned"
    /\ UNCHANGED <<lsnVars, ordVars, ctxVars, kbVars, mCall, cursor, mI>>

\* release(): the position is read, and the up event posted at it.
MouseReleaseCall ==
    /\ mCall.op = "release" /\ mPc = "called"
    /\ mPos' = cursor
    /\ mReads' = mReads + 1
    /\ mPosted' = mPosted \o MouseRelease(cursor, mCall.button)
    /\ mPc' = "returned"
    /\ UNCHANGED <<lsnVars, ordVars, ctxVars, kbVars, mCall, cursor, mI>>

\* drag(): `current_position = self.position`; for one of the three
\* buttons self.press(button), which reads self.position itself; for
\* another value drag() returns.
DragEnter ==
    /\ mCall.op = "drag" /\ mPc = "called"
    /\ mPos' = cursor
    /\ IF Supported(mCall.button)
       THEN /\ mReads' = mReads + 2
            /\ mPosted' = mPosted \o MousePress(cursor, mCall.button)
            /\ mPc' = "loop"
       ELSE /\ mReads' = mReads + 1
            /\ mPc' = "returned"
            /\ UNCHANGED mPosted
    /\ UNCHANGED <<lsnVars, ordVars, ctxVars, kbVars, mCall, cursor, mI>>

\* drag(): one turn of the loop posts a dragged event; the cursor goes
\* where the event says.
DragStep ==
    /\ mCall.op = "drag" /\ mPc = "loop"
    /\ mI < mCall.steps
    /\ LET at == StepPosition(mPos, mCall.dx, mCall.dy, mI + 1, mCall.steps)
       IN  /\ mPosted' = Append(mPosted,
                                MouseEvent(DragType(mCall.button), at,
                                           ButtonType(mCall.button), 0))
           /\ cursor' = at
    /\ mI' = mI + 1
    /\ UNCHANGED <<lsnVars, ordVars, ctxVars, kbVars, mCall, mPos, mPc,
                   mReads>>

\* drag(): after the loop self.release(button), which reads self.position
\* itself: the up event is posted where the cursor is by then.
DragRelease ==
    /\ mCall.op = "drag" /\ mPc = "loop"
    /\ mI >= mCall.steps
    /\ mReads' = mReads + 1
    /\ mPosted' = mPosted \o MouseRelease(cursor, mCall.button)
    /\ mPc' = "returned"
    /\ UNCHANGED <<lsnVars, ordVars, ctxVars, kbVars, mCall, cursor, mPos,
                   mI>>

\* scroll(): `dx / steps` and `dy / steps` before the loop; steps = 0
\* raises ZeroDivisionError.  The position is not read.
ScrollEnter ==
    /\ mCall.op = "scroll" /\ mPc = "called"
    /\ mPc' = IF mCall.steps = 0 THEN "ZeroDivisionError" ELSE "loop"
    /\ UNCHANGED <<lsnVars, ordVars, ctxVars, kbVars, mCall, cursor, mPos,
                   mI, mPosted, mReads>>

\* scroll(): one turn of the loop posts a scroll event.
ScrollStep ==
    /\ mCall.op = "scroll" /\ mPc = "loop"
    /\ mI < mCall.steps
    /\ mPosted' =
         Append(mPosted,
                ScrollEvent(ScrollDelta(mCall.dy, mI + 1, mCall.steps),
                            ScrollDelta(mCall.dx, mI + 1, mCall.steps)))
    /\ mI' = mI + 1
    /\ UNCHANGED <<lsnVars, ordVars, ctxVars, kbVars, mCall, cursor, mPos,
                   mPc, mReads>>

ScrollReturn ==
    /\ mCall.op = "scroll" /\ mPc = "loop"
    /\ mI >= mCall.steps
    /\ mPc' = "returned"
    /\ UNCHANGED <<lsnVars, ordVars, ctxVars, kbVars, mCall, cursor, mPos,
                   mI, mPosted, mReads>>

NextMouse ==
    \/ MoveEnter \/ MoveStep \/ MoveReturn
    \/ ClickEnter \/ ClickStep \/ ClickReturn
    \/ MousePressCall \/ MouseReleaseCall
    \/ DragEnter \/ DragStep \/ DragRelease
    \/ ScrollEnter \/ ScrollStep \/ ScrollReturn
SpecMouse == InitMouse /\ [][NextMouse]_vars

\* -------------------------------------------------------------- claims
\* Exceptions a call of start() or stop() can end with.
Exceptions == {"AttributeError", "RuntimeError"}
Idle(c) == pc[c] = "idle"
\* The taps of the threads of the current run.
TapsOfRun == {t \in runThreads : tapEnabled[t]}
DownEvents == {"LeftMouseDown", "RightMouseDown", "OtherMouseDown"}
\* The event's class has a handler registered.
KindRegistered(evType) ==
    \/ evType = "MouseMoved" /\ on_move
    \/ evType \in ButtonEvents /\ on_click
    \/ evType = "ScrollWheel" /\ on_scroll
Dispatched == last.evType # "none"

\* C1: when stop() on a Running listener whose background thread is blocked
\* in its run loop reaches its signal, the run loop it signals to terminate
\* is that background thread's (so that the thread exits, the join completes
\* and stop() returns).
C1_StopSignalsBackgroundLoop ==
    [][\A c \in Callers :
         (/\ pc[c] = "stop_runloopstop" /\ pc'[c] # pc[c]
          /\ _thread # NoThread /\ thr[_thread] = "looping")
             => RunLoopOfThread(_thread) \in loopStops']_vars

\* C2: once a stop() on a Running listener has returned, the interception
\* point of the run it joined is disabled.
C2_TapDisabledAfterStop ==
    \A t \in stoppedRuns : ~tapEnabled[t]

\* C3, as stated: after one or more sequential start() calls with no stop()
\* in between, exactly one background thread and exactly one interception
\* point exist.
C3_ExactlyOneTap ==
    ((\A c \in SeqCallers : Idle(c)) /\ startsInRun >= 1)
        => (Cardinality(runThreads) = 1 /\ Cardinality(TapsOfRun) = 1)

\* C3, amended: after one or more sequential start() calls with no stop() in
\* between, exactly one background thread has been created and at most one
\* interception point exists: exactly one once that thread sits in its run
\* loop.
C3_OneThreadAtMostOneTap ==
    ((\A c \in SeqCallers : Idle(c)) /\ startsInRun >= 1)
        => /\ Cardinality(runThreads) = 1
           /\ Cardinality(TapsOfRun) <= 1
           /\ \A t \in runThreads : thr[t] = "looping" => TapsOfRun = {t}

\* C3 witness: a second start() returned as a no-op while the one thread of
\* the run holds its tap.
C3_Witness ==
    /\ Idle("c1") /\ outcome["c1"] = "start_noop" /\ startsInRun >= 2
    /\ \E t \in runThreads : thr[t] = "looping" /\ tapEnabled[t]

\* C4: for an event whose handler returned a value, the callback gives the
\* backend nothing exactly when that value is the boolean False; for every
\* other value it gives the event back.
C4_SuppressedIffFalse ==
    (Dispatched /\ last.handler # "none" /\ last.outcome # "raise")
        => /\ last.ret \in {"None", "event"}
           /\ (last.ret = "None") <=> (last.outcome = "False")

\* C4 witness: a handler returned the int 0 and the event propagated.
C4_Witness ==
    /\ last.handler # "none" /\ last.outcome = "int0" /\ last.ret = "event"

\* C5: an event whose handler raised is propagated as if the handler had
\* returned True (and the run loop goes on).
C5_RaisingHandlerPropagates ==
    (Dispatched /\ last.handler # "none" /\ last.outcome = "raise")
        => last.ret = "event"

\* C6: when creation of the interception point failed in a thread that
\* start() launched, a caller has been given an exception.
C6_SetupFailureSurfaced ==
    \A t \in Tids :
        exitCause[t] = "setup_failed"
            => \E c \in Callers : outcome[c] \in Exceptions

\* C7: a button event with on_click registered invokes on_click with the
\* label of its button number and with pressed true exactly for a down event
\* of any of the three button classes.
C7_ClickDecoded ==
    (Dispatched /\ last.evType \in ButtonEvents /\ on_click)
        => /\ last.handler = "on_click"
           /\ last.button = ButtonLabel(last.btn)
           /\ last.pressed <=> (last.evType \in DownEvents)

\* C8: an event whose class has no registered handler invokes no handler
\* and is given back to the backend.
C8_UnregisteredPassThrough ==
    (Dispatched /\ ~KindRegistered(last.evType))
        => (last.handler = "none" /\ last.ret = "event")

\* C8 witness: a moved event passed through a listener that has handlers for
\* clicks and scrolls, but none for moves.
C8_Witness ==
    /\ last.evType = "MouseMoved" /\ ~on_move /\ on_click /\ on_scroll
    /\ last.handler = "none" /\ last.ret = "event"

\* C9: stop() on a listener that is not running returns without raising,
\* stops no run loop and leaves the running flag, the thread reference and
\* the tap as they were.
C9_StopIdleNoop ==
    [][\A c \in Callers :
         (pc[c] = "stop_check" /\ ~_running /\ pc'[c] # pc[c])
             => /\ pc'[c] = "idle"
                /\ outcome'[c] = "stop_noop"
                /\ UNCHANGED <<_running, _thread, tap, loopStops, thr,
                               tapEnabled>>]_vars

\* C9 witness: stop() returned as a no-op on a listener that an earlier
\* stop() had already stopped.
C9_Witness ==
    /\ Idle("c1") /\ outcome["c1"] = "stop_noop" /\ ~_running
    /\ stoppedRuns # {}

\* C10: with start() called from two threads on an Idle listener and no
\* stop() at all, at most one background thread is created and at most one
\* interception point is registered.
C10_AtMostOneContext ==
    loopStops = {}
        => (Cardinality(runThreads) <= 1 /\ Cardinality(TapsOfRun) <= 1)

\* The steps of stop() behind its two tests of the running flag: the
\* teardown.
TeardownSteps ==
    {"stop_runloopstop", "stop_clear_flag", "stop_join", "stop_join_wait",
     "stop_clear_thread"}

\* C11: with stop() called from two threads on a Running listener, the
\* teardown is performed by at most one of the calls, and no call reaches
\* the join of a thread reference that the other call, now returned, has
\* cleared.
C11_ConcurrentStopOnce ==
    /\ Cardinality({c \in Callers : pc[c] \in TeardownSteps}) <= 1
    /\ \A c, d \in Callers :
         (c # d /\ pc[c] = "stop_join" /\ Idle(d) /\ outcome[d] = "stopped")
             => _thread # NoThread

\* The handler _callback calls for an event type.
HandlerOfKind(evType) ==
    IF evType = "MouseMoved" THEN "on_move"
    ELSE IF evType \in ButtonEvents THEN "on_click" ELSE "on_scroll"

\* C12: the handler invocations follow the backend's delivery order: every
\* delivered event of a registered kind has exactly one invocation, of the
\* handler of its kind, no invocation belongs to anything else, and the
\* invocations come in the order of their events.
C12_DispatchInDeliveryOrder ==
    /\ \A i \in 1..Len(evLog) :
         KindRegistered(evLog[i])
             => /\ Cardinality({j \in 1..Len(callLog) :
                                  callLog[j].event = i}) = 1
                /\ \A j \in 1..Len(callLog) :
                     callLog[j].event = i
                         => callLog[j].handler = HandlerOfKind(evLog[i])
    /\ \A j \in 1..Len(callLog) :
         /\ callLog[j].event \in 1..Len(evLog)
         /\ KindRegistered(evLog[callLog[j].event])
    /\ \A j, k \in 1..Len(callLog) :
         j < k => callLog[j].event < callLog[k].event

\* C12 witness: a click was delivered before a move, both have handlers,
\* and on_click ran before on_move.
C12_Witness ==
    /\ evLog = <<"LeftMouseDown", "MouseMoved">>
    /\ Len(callLog) = 2
    /\ callLog[1].handler = "on_click" /\ callLog[2].handler = "on_move"

\* C13: once a `with` block over the listener has been left, by its end or
\* by an exception, the tap the block created is disabled and the listener
\* is not running.
C13_ContextReleasesTap ==
    \A c \in Callers :
        (exitPath[c] \in {"normal", "exception"} /\ Idle(c))
            => (~ctxTap[c] /\ ~_running)

\* The characters the unmodified table holds, the characters the shifted
\* table has an entry for, and "the unmodified table maps code to exactly
\* ch".
UnmodifiedValues == {p[2] : p \in Range(KEYCODE_CHAR_MAP)}
ShiftedKeys == {p[1] : p \in SHIFTED_CHAR_MAP}
MapsExactly(code, ch) ==
    /\ <<code, ch>> \in Range(KEYCODE_CHAR_MAP)
    /\ \A p \in Range(KEYCODE_CHAR_MAP) : p[1] = code => p[2] = ch
\* A call of char_to_keycode has ended.
Resolved == kbOp = "char_to_keycode" /\ kbOutcome # "none"

\* C14: char_to_keycode of a character that is a value of KEYCODE_CHAR_MAP
\* returns (code, False) for a code that the table maps to exactly that
\* character.
C14_UnmodifiedResolves ==
    (Resolved /\ kbKey.v \in UnmodifiedValues)
        => /\ kbOutcome = "returned"
           /\ kbResult.kind = "found" /\ ~kbResult.shift
           /\ MapsExactly(kbResult.code, kbKey.v)

\* C14 witness: "1", which the table holds twice (codes 18 and 83), resolved
\* to its first code.
C14_Witness ==
    /\ Resolved /\ kbKey.v = "1"
    /\ kbResult = Found(18, FALSE)
    /\ Cardinality({p \in Range(KEYCODE_CHAR_MAP) : p[2] = "1"}) = 2

\* C15: char_to_keycode of a character that is a key of SHIFTED_CHAR_MAP
\* returns (code, True) for a code that the unmodified table maps to the
\* shifted table's value for the character; and every value of the shifted
\* table is a value of the unmodified table.
C15_ShiftedResolves ==
    /\ \A p \in SHIFTED_CHAR_MAP : p[2] \in UnmodifiedValues
    /\ (Resolved /\ kbKey.v \in ShiftedKeys)
           => /\ kbOutcome = "returned"
              /\ kbResult.kind = "found" /\ kbResult.shift
              /\ MapsExactly(kbResult.code, ShiftedBase(kbKey.v))

\* C15 witness: "(" resolved to the code of "9" with shift.
C15_Witness ==
    /\ Resolved /\ kbKey.v = "("
    /\ kbResult.kind = "found" /\ kbResult.shift
    /\ MapsExactly(kbResult.code, "9")

\* C16: char_to_keycode of an uppercase ASCII letter returns (code, True)
\* where code is what char_to_keycode returns, without shift, for the
\* lowercase letter.
C16_UppercaseResolves ==
    (Resolved /\ kbKey.v \in Range(UpperLetters))
        => /\ kbOutcome = "returned"
           /\ char_to_keycode(lower(kbKey.v)).kind = "found"
           /\ ~char_to_keycode(lower(kbKey.v)).shift
           /\ kbResult = Found(char_to_keycode(lower(kbKey.v)).code, TRUE)

\* C16 witness: "Q" resolved to the code of "q" with shift.
C16_Witness ==
    /\ Resolved /\ kbKey.v = "Q"
    /\ kbResult.kind = "found" /\ kbResult.shift
    /\ MapsExactly(kbResult.code, "q")

\* A character that has no entry in the shifted table, is no value of the
\* unmodified table and is no uppercase form of such a value.
Unmapped(ch) ==
    /\ ch \notin UnmodifiedValues
    /\ ch \notin ShiftedKeys
    /\ ~(isalpha(ch) /\ isupper(ch) /\ lower(ch) \in UnmodifiedValues)

\* C17: for a character that is not mapped, char_to_keycode returns None,
\* and press, release and tap each return without an exception and without
\* having posted an event.
C17_UnmappedIsSilentNoop ==
    (kbKey.type = "str" /\ Unmapped(kbKey.v) /\ kbOutcome # "none")
        => /\ kbOutcome = "returned"
           /\ kbOp = "char_to_keycode" => kbResult = NotFound
           /\ kbOp \in {"press", "release", "tap"} => kbPosted = <<>>

\* C18: while and after type() types a text of mapped characters, it has
\* posted, for each character done with and in the order of the text, one
\* key-down and then one key-up at the code char_to_keycode gives, the
\* key-down with the shift flag exactly when char_to_keycode asks for
\* shift, and nothing else; it does not raise, and it returns with every
\* character done.
C18_TypePostsDownUpPairs ==
    (kbOp = "type" /\ \A k \in 1..Len(kbText) : ~Unmapped(kbText[k]))
        => /\ kbOutcome \in {"none", "returned"}
           /\ kbOutcome = "returned" => kbIdx = Len(kbText)
           /\ Len(kbPosted) = 2 * kbIdx
           /\ \A k \in 1..kbIdx :
                LET r == char_to_keycode(kbText[k])
                    down == kbPosted[2 * k - 1]
                    up == kbPosted[2 * k]
                IN  /\ r.kind = "found"
                    /\ down.down /\ down.code = r.code
                    /\ down.shift <=> r.shift
                    /\ ~up.down /\ up.code = r.code

\* C18 witness: "Ab1!" typed: a with shift, b, 1, 1 with shift.
C18_Witness ==
    /\ kbOp = "type" /\ kbText = <<"A", "b", "1", "!">>
    /\ kbOutcome = "returned"
    /\ kbPosted =
         << KeyEvent(0, TRUE, TRUE), KeyEvent(0, FALSE, FALSE),
            KeyEvent(11, TRUE, FALSE), KeyEvent(11, FALSE, FALSE),
            KeyEvent(18, TRUE, FALSE), KeyEvent(18, FALSE, FALSE),
            KeyEvent(18, TRUE, TRUE), KeyEvent(18, FALSE, FALSE) >>

\* The fraction q is p + d * i / n.
AtFraction(q, p, d, i, n) ==
    /\ q[2] > 0
    /\ q[1] * (p[2] * n) = q[2] * (p[1] * n + d * i * p[2])

\* C19: while and after move(dx, dy, steps) with steps >= 1 runs from the
\* position P the cursor had when it was called, the events posted are the
\* moved events of the turns done, the i-th at P + (dx, dy) * i / steps;
\* the call returns after `steps` of them, so the last is at P + (dx, dy).
C19_MoveInterpolates ==
    (mCall.op = "move" /\ mCall.steps >= 1 /\ mPc \in {"loop", "returned"})
        => /\ Len(mPosted) = mI
           /\ mPc = "returned" => mI = mCall.steps
           /\ \A i \in 1..Len(mPosted) :
                /\ mPosted[i].type = "MouseMoved"
                /\ AtFraction(mPosted[i].pos[1], mCall.from[1], mCall.dx,
                              i, mCall.steps)
                /\ AtFraction(mPosted[i].pos[2], mCall.from[2], mCall.dy,
                              i, mCall.steps)
           /\ mPc = "returned"
                => /\ AtFraction(cursor[1], mCall.from[1], mCall.dx, 1, 1)
                   /\ AtFraction(cursor[2], mCall.from[2], mCall.dy, 1, 1)

\* C19 witness: move(2, -1, steps=3) from (0, 1) returned after events at
\* (2/3, 2/3), (4/3, 1/3) and (2, 0).
C19_Witness ==
    /\ mCall.op = "move" /\ mCall.dx = 2 /\ mCall.dy = -1
    /\ mCall.steps = 3 /\ mCall.from = <<Frac(0, 1), Frac(1, 1)>>
    /\ mPc = "returned" /\ Len(mPosted) = 3
    /\ mPosted[1].pos = <<Frac(2, 3), Frac(2, 3)>>
    /\ mPosted[2].pos = <<Frac(4, 3), Frac(1, 3)>>
    /\ mPosted[3].pos = <<Frac(2, 1), Frac(0, 1)>>

\* C20: while and after click(button, count) with one of the three buttons
\* and count >= 1 runs, the events posted are the pairs of the turns done:
\* the k-th pair is the button's down event and then its up event, both
\* with click state k and both at the position the cursor had when the call
\* began; the call returns after `count` pairs.
C20_ClickPairsCounted ==
    (/\ mCall.op = "click" /\ mCall.button \in Buttons /\ mCall.count >= 1
     /\ mPc \in {"loop", "returned"})
        => /\ Len(mPosted) = 2 * mI
           /\ mPc = "returned" => mI = mCall.count
           /\ \A k \in 1..mI :
                /\ mPosted[2 * k - 1] =
                     MouseEvent(DownType(mCall.button), mCall.from,
                                ButtonType(mCall.button), k)
                /\ mPosted[2 * k] =
                     MouseEvent(UpType(mCall.button), mCall.from,
                                ButtonType(mCall.button), k)

\* C20 witness: click(right, count=3) returned after six events, the last
\* pair with click state 3.
C20_Witness ==
    /\ mCall.op = "click" /\ mCall.button = "right" /\ mCall.count = 3
    /\ mPc = "returned" /\ Len(mPosted) = 6
    /\ mPosted[5].type = "RightMouseDown" /\ mPosted[5].clickState = 3
    /\ mPosted[6].type = "RightMouseUp" /\ mPosted[6].clickState = 3

\* C28: whenever no call of start() or stop() is under way and the listener
\* is flagged running, its background thread is setting up or sits in its
\* run loop with an enabled tap.
C28_RunningMeansLiveThread ==
    ((\A c \in Callers : Idle(c)) /\ _running)
        => /\ _thread # NoThread
           /\ \/ thr[_thread] = "setup"
              \/ thr[_thread] = "looping" /\ tapEnabled[_thread]

\* C29: no exception leaves _callback: no dispatch ends with an exception
\* given to the run loop, no background thread ends because of one, and a
\* dispatch in which the handler and then on_error raised gives the event
\* back.
C29_NoExceptionEscapes ==
    /\ last.ret # "escaped"
    /\ \A t \in Tids : exitCause[t] # "callback_exception"
    /\ (Dispatched /\ last.outcome = "raise" /\ last.errOutcome = "raise")
           => last.ret = "event"

\* C25: char_to_keycode ends by returning for every character, and the calls
\* it makes of itself go one level deep at most.
C25_ResolveOneLevelDeep ==
    Resolved => (kbOutcome = "returned" /\ Deepest(kbKey.v, 0) <= 1)

\* The events type() is to post for the characters `text[from..]`: the pair
\* of every mapped character, nothing for the others.
RECURSIVE PairsOfMapped(_, _)
PairsOfMapped(text, from) ==
    IF from > Len(text) THEN <<>>
    ELSE (IF Unmapped(text[from]) THEN <<>>
          ELSE LET r == char_to_keycode(text[from])
               IN  <<KeyEvent(r.code, TRUE, r.shift),
                     KeyEvent(r.code, FALSE, FALSE)>>)
         \o PairsOfMapped(text, from + 1)

\* C26: type() of a text that holds a character without a mapping ends by
\* returning, having posted the down/up pair of every mapped character of
\* the text, in order, and nothing for the others.
C26_TypeSkipsUnmapped ==
    (/\ kbOp = "type" /\ kbOutcome # "none"
     /\ \E k \in 1..Len(kbText) : Unmapped(kbText[k]))
        => (kbOutcome = "returned" /\ kbPosted = PairsOfMapped(kbText, 1))

\* The positions of the table that hold a character.
PositionsOf(ch) ==
    {i \in DOMAIN KEYCODE_CHAR_MAP : KEYCODE_CHAR_MAP[i][2] = ch}

Digits == {"0", "1", "2", "3", "4", "5", "6", "7", "8", "9"}
RatLeq(a, b) == a[1] * b[2] <= b[1] * a[2]
\* The event is the dragged event of turn i of the call's drag.
DraggedAt(ev, i) ==
    /\ ev.type = DragType(mCall.button)
    /\ ev.button = ButtonType(mCall.button)
    /\ AtFraction(ev.pos[1], mCall.from[1], mCall.dx, i, mCall.steps)
    /\ AtFraction(ev.pos[2], mCall.from[2], mCall.dy, i, mCall.steps)

\* C21: drag(dx, dy, button, steps) with one of the three buttons and
\* steps >= 1 posts the button's down event first and then, turn by turn,
\* the dragged events of the button, the i-th at P + (dx, dy) * i / steps,
\* each axis moving one way only; when it has returned it has posted
\* exactly `steps` dragged events and then the button's up event, and
\* nothing else.
C21_DragDownMovesUp ==
    (/\ mCall.op = "drag" /\ mCall.button \in Buttons /\ mCall.steps >= 1
     /\ mPc \in {"loop", "returned"})
        => /\ mPosted[1].type = DownType(mCall.button)
           /\ mPosted[1].button = ButtonType(mCall.button)
           /\ \A i \in 1..mI : DraggedAt(mPosted[i + 1], i)
           /\ \A i, j \in 1..mI :
                i < j =>
                  /\ mCall.dx >= 0
                       => RatLeq(mPosted[i + 1].pos[1], mPosted[j + 1].pos[1])
                  /\ mCall.dx <= 0
                       => RatLeq(mPosted[j + 1].pos[1], mPosted[i + 1].pos[1])
                  /\ mCall.dy >= 0
                       => RatLeq(mPosted[i + 1].pos[2], mPosted[j + 1].pos[2])
                  /\ mCall.dy <= 0
                       => RatLeq(mPosted[j + 1].pos[2], mPosted[i + 1].pos[2])
           /\ mPc = "loop" => Len(mPosted) = mI + 1
           /\ mPc = "returned"
                => /\ mI = mCall.steps
                   /\ Len(mPosted) = mCall.steps + 2
                   /\ mPosted[mCall.steps + 2].type = UpType(mCall.button)
                   /\ mPosted[mCall.steps + 2].button
                        = ButtonType(mCall.button)

\* C21 witness: drag(2, 0, left, steps=2) from (0, 0) returned after the
\* left down event, dragged events at x = 1 and x = 2, and the left up
\* event.
C21_Witness ==
    /\ mCall.op = "drag" /\ mCall.button = "left" /\ mCall.steps = 2
    /\ mCall.dx = 2 /\ mCall.dy = 0 /\ mCall.from = Origin
    /\ mPc = "returned" /\ Len(mPosted) = 4
    /\ mPosted[1].type = "LeftMouseDown"
    /\ mPosted[2].type = "LeftMouseDragged"
    /\ mPosted[2].pos = <<Frac(1, 1), Frac(0, 1)>>
    /\ mPosted[3].type = "LeftMouseDragged"
    /\ mPosted[3].pos = <<Frac(2, 1), Frac(0, 1)>>
    /\ mPosted[4].type = "LeftMouseUp"

\* The sum of the fractions f(seq[1]), ..., f(seq[k]) for the wheel of a
\* scroll event.
RECURSIVE SumWheel1(_, _)
SumWheel1(seq, k) ==
    IF k = 0 THEN Frac(0, 1) ELSE RatAdd(SumWheel1(seq, k - 1), seq[k].wheel1)
RECURSIVE SumWheel2(_, _)
SumWheel2(seq, k) ==
    IF k = 0 THEN Frac(0, 1) ELSE RatAdd(SumWheel2(seq, k - 1), seq[k].wheel2)

\* C22: scroll(dx, dy, steps) with steps >= 1 posts, turn by turn, scroll
\* events that each carry dy / steps on the vertical and dx / steps on the
\* horizontal wheel; when it has returned it has posted exactly `steps` of
\* them, and their deltas sum to (dx, dy).
C22_ScrollEvenSteps ==
    (mCall.op = "scroll" /\ mCall.steps >= 1 /\ mPc # "called")
        => /\ mPc \in {"loop", "returned"}
           /\ Len(mPosted) = mI
           /\ \A i \in 1..Len(mPosted) :
                /\ mPosted[i].type = "ScrollWheel"
                /\ AtFraction(mPosted[i].wheel1, Frac(0, 1), mCall.dy, 1,
                              mCall.steps)
                /\ AtFraction(mPosted[i].wheel2, Frac(0, 1), mCall.dx, 1,
                              mCall.steps)
           /\ mPc = "returned"
                => /\ mI = mCall.steps
                   /\ SumWheel1(mPosted, mI) = Frac(mCall.dy, 1)
                   /\ SumWheel2(mPosted, mI) = Frac(mCall.dx, 1)

\* C22 witness: scroll(1, -2, steps=3) returned after three events of
\* -2/3 on the vertical and 1/3 on the horizontal wheel.
C22_Witness ==
    /\ mCall.op = "scroll" /\ mCall.dx = 1 /\ mCall.dy = -2
    /\ mCall.steps = 3 /\ mPc = "returned" /\ Len(mPosted) = 3
    /\ \A i \in 1..3 :
         mPosted[i] = ScrollEvent(<<-2, 3>>, <<1, 3>>)

\* C23: click, press, release and drag with a button that is none of left,
\* right and middle post no event, raise nothing and return.
C23_UnsupportedButtonNoop ==
    (/\ mCall.op \in {"click", "press", "release", "drag"}
     /\ mCall.button \notin Buttons)
        => /\ mPosted = <<>>
           /\ mPc \in {"called", "returned"}

\* C23 witness: drag(2, 1, <no button>, steps=3) has returned with nothing
\* posted.
C23_Witness ==
    /\ mCall.op = "drag" /\ mCall.button \notin Buttons
    /\ mCall.dx = 2 /\ mCall.dy = 1 /\ mCall.steps = 3
    /\ mPc = "returned" /\ mPosted = <<>>

\* The position is P, or P + (dx, dy), of the call.
AtStart(pos) == pos = mCall.from
AtEnd(pos) ==
    /\ AtFraction(pos[1], mCall.from[1], mCall.dx, 1, 1)
    /\ AtFraction(pos[2], mCall.from[2], mCall.dy, 1, 1)

\* C24: move, click, press, release and drag read self.position once, when
\* they begin, and the events they post are at positions computed from
\* that reading P: the events of click, press and release and the down
\* event of drag at P, the i-th moved or dragged event at
\* P + (dx, dy) * i / steps, the up event of drag at P or at P + (dx, dy).
C24_PositionReadOnce ==
    (/\ mCall.op \in {"move", "click", "press", "release", "drag"}
     /\ mPc # "called")
        => /\ mReads = 1
           /\ mPos = mCall.from
           /\ mCall.op \in {"click", "press", "release"}
                => \A k \in 1..Len(mPosted) : AtStart(mPosted[k].pos)
           /\ mCall.op = "move"
                => \A i \in 1..Len(mPosted) :
                     /\ AtFraction(mPosted[i].pos[1], mCall.from[1],
                                   mCall.dx, i, mCall.steps)
                     /\ AtFraction(mPosted[i].pos[2], mCall.from[2],
                                   mCall.dy, i, mCall.steps)
           /\ (mCall.op = "drag" /\ mCall.button \in Buttons)
                => /\ AtStart(mPosted[1].pos)
                   /\ \A i \in 1..mI : DraggedAt(mPosted[i + 1], i)
                   /\ mPc = "returned"
                        => \/ AtStart(mPosted[Len(mPosted)].pos)
                           \/ AtEnd(mPosted[Len(mPosted)].pos)

====
